---- MODULE Spec2Model ----
(***************************************************************************)
(* The news-to-WordPress pipeline of agent.py and entomology.py: one run   *)
(* of Scout -> Media Manager -> Author -> Publisher against three external *)
(* HTTP services whose answers are chosen nondeterministically.            *)
(***************************************************************************)
EXTENDS Integers, Sequences, FiniteSets, TLC

VARIABLES
    variant,        \* which script runs: "agent" or "entomology"
    config,         \* the four environment settings read at import time
    sitePosts,      \* titles of the posts the destination site holds
    published,      \* titles that earlier runs published with success
    pc,             \* position of the run
    stages,         \* the stages main has entered, in order
    newsOutcome,    \* how the news request ended, "none" before it
    feed,           \* data['articles'] of the news response (Scout local)
    valid_articles, \* the filtered candidates (Scout local)
    checkLog,       \* one entry per check_if_post_exists call of the Scout
    article,        \* the article the Scout returned, NoArticle for None
    imgOutcome,     \* how upload_image_to_wordpress ended
    downloads,      \* image GET requests issued
    uploads,        \* POST /media requests issued
    media_id,       \* main's media_id
    uploaded_url,   \* main's uploaded_url
    img_ref,        \* image_url_for_embedding handed to the Author
    modelLog,       \* one entry per generative-model request
    title,          \* main's title (Author result)
    content,        \* main's content (Author result)
    post_data,      \* the JSON body built by publish_to_wordpress
    postLog,        \* one entry per POST /posts request
    outcome         \* how the run ended

vars == <<variant, config, sitePosts, published, pc, stages, newsOutcome, feed, valid_articles, checkLog,
          article, imgOutcome, downloads, uploads, media_id, uploaded_url,
          img_ref, modelLog, title, content, post_data, postLog, outcome>>

(***************************************************************************)
(* Python values.  A str is a sequence of one-character strings; None is a *)
(* value different from every str.  Identifiers and URLs whose characters  *)
(* the code never inspects are atomic strings, with "None" for None.       *)
(***************************************************************************)
NoneStr == <<"None">>
None == "None"

\* Python truthiness of a str-or-None value: 'if x', 'x and ...'
Truthy(s) == s # NoneStr /\ s # <<>>

\* Python truthiness of an atomic value (URL, setting)
TruthyAtom(a) == a # None /\ a # ""

\* bound: longest article list the news service answers with
MaxArticles == 2

Variants == {"agent", "entomology"}

ConfigKeys == {"NEWS_API_KEY", "LLM_API_KEY", "WP_USER", "WP_PASSWORD"}

\* os.getenv gives None (unset), "" or a value
Settings == {None, "", "secret"}

\* all([...]) over the four settings
AllSettingsAny(c) == \E k \in ConfigKeys : TruthyAtom(c[k])
AllSettings(c) == \A k \in ConfigKeys : TruthyAtom(c[k])

(***************************************************************************)
(* str.lower() and the 'in' substring test, on character sequences.        *)
(***************************************************************************)
LowerChar(c) ==
    CASE c = "A" -> "a" [] c = "D" -> "d" [] c = "E" -> "e" [] c = "M" -> "m"
      [] c = "O" -> "o" [] c = "R" -> "r" [] c = "V" -> "v"
      [] OTHER -> c

Lower(s) == [i \in 1..Len(s) |-> LowerChar(s[i])]

\* needle in hay
Contains(hay, needle) ==
    \E i \in 0..(Len(hay) - Len(needle)) :
        \A j \in 1..Len(needle) : hay[i + j] = needle[j]

RemovedMarker == <<"r", "e", "m", "o", "v", "e", "d">>

TitleAnts == <<"A", "n", "t", "s">>
TitleRemove == <<"R", "e", "m", "o", "v", "e">>
TitleRemovedUpper == <<"R", "E", "M", "O", "V", "E", "D", "!">>
TitleRemovedMixed == <<"[", "R", "e", "m", "o", "v", "e", "d", "]">>

\* titles the news service may send: a str (possibly empty) or null
Titles == {NoneStr, <<>>, TitleAnts, TitleRemove, TitleRemovedUpper, TitleRemovedMixed}

\* urlToImage: null, "" or a URL
ImageUrls == {None, "", "http://img"}

\* url: the link to the original reporting
ArticleUrls == {"http://news/1", "http://news/2"}

Articles == [title : Titles, urlToImage : ImageUrls, url : ArticleUrls]

NoArticle == [title |-> NoneStr, urlToImage |-> None, url |-> None]

\* publish_to_wordpress has built no request body yet
NoPost == [title |-> NoneStr, content |-> NoneStr, featured_media |-> None]

\* article lists of length at most MaxArticles
Feeds == UNION {[1..n -> Articles] : n \in 0..MaxArticles}

\* the filter condition of the list comprehension, for one article that
\* does not raise
ValidArticleNoLower(a) ==
    TruthyAtom(a.urlToImage) /\ ~Contains(a.title, RemovedMarker)
ValidArticle(a) ==
    TruthyAtom(a.urlToImage) /\ ~Contains(Lower(a.title), RemovedMarker)

\* a['title'].lower() raises AttributeError when title is None; the 'and'
\* evaluates it only for an article with a truthy urlToImage
FilterRaises(f) ==
    \E i \in 1..Len(f) : TruthyAtom(f[i].urlToImage) /\ f[i].title = NoneStr

\* SelectSeq with the filter condition
FilterValid(f) == SelectSeq(f, ValidArticle)

(***************************************************************************)
(* The destination site's post search, GET /posts?search=<term>: the posts *)
(* whose title is the term.                                                *)
(***************************************************************************)
SiteTitles == {TitleAnts, TitleRemove}

SiteSearch(term) == {p \in sitePosts : p = term}

\* how a GET to the site or to the image host can end
GetResponses == {"200", "non200", "raise"}

\* check_if_post_exists(search_term), given how the GET ended
check_if_post_existsNever(resp, search_term) == FALSE
check_if_post_existsAnyStatus(resp, search_term) ==
    resp # "raise" /\ Cardinality(SiteSearch(search_term)) > 0
check_if_post_exists(resp, search_term) ==
    resp = "200" /\ Cardinality(SiteSearch(search_term)) > 0

(***************************************************************************)
(* The six call sites of the requests library.  A service may never        *)
(* answer ("silent"): a call made with timeout= then raises, a call made   *)
(* without one waits for ever.                                             *)
(***************************************************************************)
CallSites == {"news", "check", "download", "upload", "model", "post"}

\* the call passes timeout=: every call but the generateContent POST of both
\* scripts and the news GET of agent.py
HasTimeout(v, site) == ~(site = "model" \/ (site = "news" /\ v = "agent"))

\* what the caller sees of an answer
Answer(v, site, resp) ==
    IF resp = "silent"
       THEN IF HasTimeout(v, site) THEN "raise" ELSE "block"
       ELSE resp

\* the call stands inside a try whose 'except Exception' handles the raise
RaiseCaughtButCheck(site) == site # "check"
RaiseCaught(site) == TRUE

\* the position after a call that ended as 'how': "Blocked" in a call that
\* never returns, "Crashed" by an exception no handler catches, else 'next'
After(site, how, next) ==
    IF how = "block" THEN "Blocked"
    ELSE IF how = "raise" /\ ~RaiseCaught(site) THEN "Crashed"
    ELSE next

\* the call returned to its caller, or raised into its handler
Returned(site, how) == After(site, how, "ok") = "ok"

(***************************************************************************)
(* Startup: the SAFETY CHECKS block.                                       *)
(***************************************************************************)
Init ==
    /\ variant \in Variants
    /\ config \in [ConfigKeys -> Settings]
    /\ sitePosts \in SUBSET SiteTitles
    /\ published = {}
    /\ pc = "Start"
    /\ stages = <<>>
    /\ newsOutcome = "none"
    /\ feed = <<>>
    /\ valid_articles = <<>>
    /\ checkLog = <<>>
    /\ article = NoArticle
    /\ imgOutcome = "none"
    /\ downloads = 0
    /\ uploads = 0
    /\ media_id = None
    /\ uploaded_url = None
    /\ img_ref = None
    /\ modelLog = <<>>
    /\ title = NoneStr
    /\ content = NoneStr
    /\ post_data = NoPost
    /\ postLog = <<>>
    /\ outcome = "Running"

scoutVars == <<newsOutcome, feed, valid_articles, checkLog, article>>
imageVars == <<imgOutcome, downloads, uploads, media_id, uploaded_url, img_ref>>
authorVars == <<modelLog, title, content>>
publishVars == <<post_data, postLog>>

\* if not all([...]): sys.exit(1)
ConfigCheck ==
    /\ pc = "Start"
    /\ IF AllSettings(config)
          THEN /\ pc' = "Scout"
               /\ stages' = Append(stages, "Scouting")
               /\ outcome' = outcome
          ELSE /\ pc' = "Done"
               /\ stages' = Append(stages, "Done")
               /\ outcome' = "ConfigError"
    /\ UNCHANGED <<variant, config, published, sitePosts, scoutVars, imageVars,
                   authorVars, publishVars>>

(***************************************************************************)
(* Phase 1, the Scout: fetch_top_science_story / fetch_top_entomology_story*)
(***************************************************************************)
\* the news request: it raises (transport, timeout, body not JSON), or
\* answers a status flag and an article list
NewsResponses ==
    {[kind |-> k, articles |-> <<>>] : k \in {"raise", "error", "silent"}}
    \cup {[kind |-> "ok", articles |-> f] : f \in Feeds}

\* the request, the filter, and every return before the duplicate loop
FetchNews ==
    /\ pc = "Scout"
    /\ \E resp \in NewsResponses :
         LET how == Answer(variant, "news", resp.kind) IN
         /\ newsOutcome' = how
         /\ feed' = resp.articles
         /\ IF how = "ok" /\ resp.articles # <<>>
                /\ ~FilterRaises(resp.articles)
                /\ FilterValid(resp.articles) # <<>>
               THEN /\ valid_articles' = FilterValid(resp.articles)
                    /\ pc' = "Check"
               ELSE /\ valid_articles' = <<>>
                    /\ pc' = After("news", how, "ScoutReturn")
    /\ UNCHANGED <<variant, config, published, sitePosts, stages, checkLog, article,
                   imageVars, authorVars, publishVars, outcome>>

\* 'return None' once the loop has skipped every candidate
ScoutExhaustedLast(cands) == cands[Len(cands)]
ScoutExhausted(cands) == NoArticle

\* one pass of 'for article in valid_articles'
CheckCandidate ==
    /\ pc = "Check"
    /\ Len(checkLog) < Len(valid_articles)
    /\ LET cand == valid_articles[Len(checkLog) + 1] IN
       \E resp \in GetResponses \cup {"silent"} :
         LET how == Answer(variant, "check", resp)
             exists == check_if_post_exists(how, cand.title) IN
         /\ checkLog' = Append(checkLog,
                [title |-> cand.title, resp |-> how, exists |-> exists])
         /\ IF ~Returned("check", how)
               THEN article' = article /\ pc' = After("check", how, "Check")
               ELSE IF ~exists
                       THEN article' = cand /\ pc' = "ScoutReturn"
                       ELSE IF Len(checkLog) + 1 = Len(valid_articles)
                               THEN /\ article' = ScoutExhausted(valid_articles)
                                    /\ pc' = "ScoutReturn"
                               ELSE /\ article' = article
                                    /\ pc' = "Check"
    /\ UNCHANGED <<variant, config, published, sitePosts, stages, newsOutcome, feed,
                   valid_articles, imageVars, authorVars, publishVars, outcome>>

\* __main__: 'if article:' ... 'else: print("No valid stories found today.")'
\* The Scout's locals end with its call; main keeps the article alone.
MainHasStoryAlways(a) == TRUE
MainHasStory(a) == a # NoArticle

MainAfterScout ==
    /\ pc = "ScoutReturn"
    /\ IF MainHasStory(article)
          THEN /\ pc' = "Image"
               /\ stages' = Append(stages, "ImageUpload")
               /\ feed' = <<>>
               /\ valid_articles' = <<>>
               /\ checkLog' = <<>>
               /\ outcome' = outcome
          ELSE /\ pc' = "Done"
               /\ stages' = Append(stages, "Done")
               /\ outcome' = "NoStories"
               /\ UNCHANGED <<feed, valid_articles, checkLog>>
    /\ UNCHANGED <<variant, config, published, sitePosts, newsOutcome, article, imageVars,
                   authorVars, publishVars>>

(***************************************************************************)
(* Phase 2, the Media Manager: upload_image_to_wordpress.                  *)
(***************************************************************************)
\* main: img_ref = uploaded_url if uploaded_url else ""
ImgRefKeep(url) == url
ImgRef(url) == IF TruthyAtom(url) THEN url ELSE ""

\* the function returns (id, url) to main, which derives img_ref
ImageReturn(how, id, url) ==
    /\ imgOutcome' = how
    /\ media_id' = id
    /\ uploaded_url' = url
    /\ img_ref' = ImgRef(url)
    /\ pc' = "Author"
    /\ stages' = Append(stages, "Authoring")

\* the call did not come back: nothing is assigned
ImageNoReturn(site, how) ==
    /\ pc' = After(site, how, "Image")
    /\ UNCHANGED <<imgOutcome, media_id, uploaded_url, img_ref, stages>>

\* 'if not image_url: return None, None', then the image GET
DownloadImage ==
    /\ pc = "Image"
    /\ IF ~TruthyAtom(article.urlToImage)
          THEN ImageReturn("noUrl", None, None) /\ downloads' = downloads
          ELSE \E resp \in GetResponses \cup {"silent"} :
                 LET how == Answer(variant, "download", resp) IN
                 /\ downloads' = downloads + 1
                 /\ IF how = "200"
                       THEN /\ pc' = "Upload"
                            /\ UNCHANGED <<imgOutcome, media_id, uploaded_url,
                                           img_ref, stages>>
                       ELSE IF ~Returned("download", how)
                               THEN ImageNoReturn("download", how)
                               ELSE ImageReturn(IF how = "raise" THEN "downloadRaise"
                                                                 ELSE "downloadNon200",
                                                None, None)
    /\ UNCHANGED <<variant, config, published, sitePosts, scoutVars, uploads,
                   authorVars, publishVars, outcome>>

\* ids and URLs the site's media endpoint may answer; data.get gives None
\* for a field the body lacks
MediaIds == {None, "m7"}
MediaUrls == {None, "http://wp/m7.jpg"}

\* POST /media: it raises (transport, timeout, body not JSON), answers a
\* status other than 201, or answers 201 with a JSON body
UploadResponses ==
    {[kind |-> k, id |-> None, source_url |-> None] : k \in {"raise", "non201", "silent"}}
    \cup {[kind |-> "201", id |-> i, source_url |-> u] : i \in MediaIds, u \in MediaUrls}

UploadImage ==
    /\ pc = "Upload"
    /\ \E r \in UploadResponses :
         LET how == Answer(variant, "upload", r.kind) IN
         /\ uploads' = uploads + 1
         /\ IF how = "201"
               THEN ImageReturn("uploaded", r.id, r.source_url)
               ELSE IF ~Returned("upload", how)
                       THEN ImageNoReturn("upload", how)
                       ELSE ImageReturn(IF how = "raise" THEN "uploadRaise"
                                                         ELSE "uploadNon201",
                                        None, None)
    /\ UNCHANGED <<variant, config, published, sitePosts, scoutVars, downloads,
                   authorVars, publishVars, outcome>>

(***************************************************************************)
(* Phase 3, the Author: write_feature_article.  Generated text is a        *)
(* sequence of tokens: code-fence markers, whitespace, HTML.               *)
(***************************************************************************)
model_cascade(v) ==
    IF v = "agent"
       THEN <<"gemini-2.5-flash", "gemini-1.5-flash-8b", "gemini-1.0-pro", "gemini-1.5-pro">>
       ELSE <<"gemini-2.5-flash", "gemini-1.5-flash", "gemini-1.5-flash-8b", "gemini-1.0-pro">>

\* str.replace(old, ""), token-wise
Remove(s, old) == SelectSeq(s, LAMBDA t : t # old)

IsSpace(t) == t \in {" ", "\n"}

RECURSIVE StripLeft(_)
StripLeft(s) == IF s # <<>> /\ IsSpace(Head(s)) THEN StripLeft(Tail(s)) ELSE s

RECURSIVE StripRight(_)
StripRight(s) ==
    IF s # <<>> /\ IsSpace(s[Len(s)]) THEN StripRight(SubSeq(s, 1, Len(s) - 1)) ELSE s

\* str.strip()
Strip(s) == StripRight(StripLeft(s))

\* the markdown code-fence markers: three backticks followed by html, and
\* three backticks
FenceHtml == "[fence]html"
Fence == "[fence]"

\* raw_html.replace(FenceHtml, "").replace(Fence, "").strip()
CleanHtml(raw_html) == Strip(Remove(Remove(raw_html, FenceHtml), Fence))

\* entomology.py's source_footer f-string: it begins and ends with
\* whitespace and links to the article's url
SourceFooter(url) ==
    <<"\n", "<hr/>", "<div class=article-source>", "<a href=", url, ">", "\n">>

\* the body returned on success
AuthorBody(v, raw_html, url) ==
    IF v = "entomology" THEN CleanHtml(raw_html) \o SourceFooter(url)
                        ELSE CleanHtml(raw_html)

\* texts a model may generate
RawTexts ==
    { <<"<h1>", "<p>">>,
      <<FenceHtml, "\n", "<h1>", "<p>", "\n", Fence>>,
      <<FenceHtml, "\n", Fence>> }

\* one generateContent request: status 429; an exception (transport, body
\* not JSON); an error payload; a body with neither candidates nor error;
\* candidates lacking content/parts/text (KeyError); generated text
ModelFailures == {"429", "raise", "error", "empty", "malformed"}

ModelResponses ==
    {[kind |-> k, text |-> <<>>] : k \in ModelFailures \cup {"silent"}}
    \cup {[kind |-> "text", text |-> t] : t \in RawTexts}

\* the request reaches 'return title, ...'
CarriesText(how) == how = "text"

\* the loop goes on to another model after attempt n
AuthorContinuesPastSuccess(v, success, n) == n < Len(model_cascade(v))
AuthorContinues(v, success, n) == ~success /\ n < Len(model_cascade(v))

\* 'return None, None' after the loop
AuthorFailureTitled(a) == <<a.title, <<>>>>
AuthorFailure(a) == <<NoneStr, NoneStr>>

\* one pass of 'for model in model_cascade'
AuthorAttempt ==
    /\ pc = "Author"
    /\ Len(modelLog) < Len(model_cascade(variant))
    /\ LET n == Len(modelLog) + 1 IN
       \E r \in ModelResponses :
         LET how == Answer(variant, "model", r.kind) IN
         /\ modelLog' = Append(modelLog,
                [model |-> model_cascade(variant)[n],
                 text |-> CarriesText(how),
                 answered |-> how # "block"])
         /\ IF ~Returned("model", how)
               THEN /\ pc' = After("model", how, "Author")
                    /\ UNCHANGED <<title, content>>
               ELSE /\ IF CarriesText(how)
                          THEN /\ title' = article.title
                               /\ content' = AuthorBody(variant, r.text, article.url)
                          ELSE IF AuthorContinues(variant, FALSE, n)
                                  THEN UNCHANGED <<title, content>>
                                  ELSE /\ title' = AuthorFailure(article)[1]
                                       /\ content' = AuthorFailure(article)[2]
                    /\ pc' = IF AuthorContinues(variant, CarriesText(how), n)
                                THEN "Author" ELSE "AuthorReturn"
    /\ UNCHANGED <<variant, config, published, sitePosts, stages, scoutVars, imageVars,
                   publishVars, outcome>>

\* main: 'if title and content:'
MainPublishesAlways(t, c) == TRUE
MainPublishes(t, c) == Truthy(t) /\ Truthy(c)

MainAfterAuthor ==
    /\ pc = "AuthorReturn"
    /\ IF MainPublishes(title, content)
          THEN /\ pc' = "Publish"
               /\ stages' = Append(stages, "Publishing")
               /\ outcome' = outcome
          ELSE /\ pc' = "Done"
               /\ stages' = Append(stages, "Done")
               /\ outcome' = "SkipPublish"
    /\ UNCHANGED <<variant, config, published, sitePosts, scoutVars, imageVars,
                   authorVars, publishVars>>

(***************************************************************************)
(* Phase 4, the Publisher: publish_to_wordpress(title, content, media_id). *)
(***************************************************************************)
\* range(3) of entomology.py's retry loop
PublishAttempts == 3

\* POST /posts requests one call may issue: agent.py has no loop
MaxPosts(v) == IF v = "entomology" THEN PublishAttempts ELSE 1

\* 'if not content: return'
NothingToPublish(t, c) == ~Truthy(c)

\* the guard, then the request body
PublishEnter ==
    /\ pc = "Publish"
    /\ IF NothingToPublish(title, content)
          THEN /\ pc' = "Done"
               /\ stages' = Append(stages, "Done")
               /\ outcome' = "NothingToPublish"
               /\ post_data' = post_data
          ELSE /\ pc' = "Post"
               /\ stages' = stages
               /\ outcome' = outcome
               /\ post_data' = [title |-> title, content |-> content,
                                featured_media |-> media_id]
    /\ UNCHANGED <<variant, config, published, sitePosts, scoutVars, imageVars,
                   authorVars, postLog>>

\* one POST /posts: a 2xx answer with a JSON body; a 2xx answer whose body
\* r.json() cannot read (it raises inside the try); another status; or
\* requests.post raises (transport failure, or the 30 s / 45 s timeout).
\* created: whether the site stored the post.  A request that timed out, or
\* whose answer was unreadable, may or may not have been carried out.
PostResponses ==
    {[kind |-> "2xx", created |-> TRUE], [kind |-> "non2xx", created |-> FALSE]}
    \cup {[kind |-> k, created |-> c] :
              k \in {"2xxNoJson", "raise", "silent"}, c \in BOOLEAN}

\* the attempt reaches the success print (and, in entomology.py, 'return')
PublishSucceeded(r) == r.kind = "2xx"

\* another attempt follows attempt n
PublishRetriesAfterSuccess(v, r, n) == n < MaxPosts(v)
PublishRetriesOnFailureOnly(v, r, n) == r.kind = "raise" /\ n < MaxPosts(v)
PublishRetries(v, r, n) == ~PublishSucceeded(r) /\ n < MaxPosts(v)

PublishAttempt ==
    /\ pc = "Post"
    /\ Len(postLog) < MaxPosts(variant)
    /\ \E resp \in PostResponses :
         LET how == Answer(variant, "post", resp.kind)
             r == [kind |-> how, created |-> resp.created] IN
         /\ postLog' = Append(postLog, r)
         /\ sitePosts' = IF r.created THEN sitePosts \cup {post_data.title}
                                      ELSE sitePosts
         /\ IF ~Returned("post", how)
               THEN /\ pc' = After("post", how, "Post")
                    /\ UNCHANGED <<stages, outcome>>
               ELSE IF PublishRetries(variant, r, Len(postLog) + 1)
                       THEN pc' = "Post" /\ UNCHANGED <<stages, outcome>>
                       ELSE /\ pc' = "Done"
                            /\ stages' = Append(stages, "Done")
                            /\ outcome' = IF PublishSucceeded(r) THEN "Published"
                                                                 ELSE "PublishFailed"
    /\ UNCHANGED <<variant, config, published, scoutVars, imageVars, authorVars, post_data>>

(***************************************************************************)
(* One run of the script.                                                  *)
(***************************************************************************)
Next ==
    \/ ConfigCheck
    \/ FetchNews
    \/ CheckCandidate
    \/ MainAfterScout
    \/ DownloadImage
    \/ UploadImage
    \/ AuthorAttempt
    \/ MainAfterAuthor
    \/ PublishEnter
    \/ PublishAttempt

Spec == Init /\ [][Next]_vars

(***************************************************************************)
(* Consecutive runs.  The script keeps nothing between two runs: the next  *)
(* run starts from the module's top with the same settings, and sees of    *)
(* the earlier runs only what the destination site holds.                  *)
(***************************************************************************)
InitRuns ==
    /\ variant \in Variants
    /\ config = [k \in ConfigKeys |-> "secret"]
    /\ sitePosts = {}
    /\ published = {}
    /\ pc = "Start"
    /\ stages = <<>>
    /\ newsOutcome = "none"
    /\ feed = <<>>
    /\ valid_articles = <<>>
    /\ checkLog = <<>>
    /\ article = NoArticle
    /\ imgOutcome = "none"
    /\ downloads = 0
    /\ uploads = 0
    /\ media_id = None
    /\ uploaded_url = None
    /\ img_ref = None
    /\ modelLog = <<>>
    /\ title = NoneStr
    /\ content = NoneStr
    /\ post_data = NoPost
    /\ postLog = <<>>
    /\ outcome = "Running"

\* the process has ended and the script is started again
NextRun ==
    /\ pc = "Done"
    /\ published' = IF outcome = "Published"
                       THEN published \cup {post_data.title}
                       ELSE published
    /\ pc' = "Start"
    /\ stages' = <<>>
    /\ newsOutcome' = "none"
    /\ feed' = <<>>
    /\ valid_articles' = <<>>
    /\ checkLog' = <<>>
    /\ article' = NoArticle
    /\ imgOutcome' = "none"
    /\ downloads' = 0
    /\ uploads' = 0
    /\ media_id' = None
    /\ uploaded_url' = None
    /\ img_ref' = None
    /\ modelLog' = <<>>
    /\ title' = NoneStr
    /\ content' = NoneStr
    /\ post_data' = NoPost
    /\ postLog' = <<>>
    /\ outcome' = "Running"
    /\ UNCHANGED <<variant, config, sitePosts>>

NextRuns == Next \/ NextRun

SpecRuns == InitRuns /\ [][NextRuns]_vars

(***************************************************************************)
(* publish_to_wordpress called on its own, with any title, content and     *)
(* media id.                                                               *)
(***************************************************************************)
PublishTitles == {NoneStr, <<>>, TitleAnts}
PublishContents == {NoneStr, <<>>, <<"<h1>", "<p>">>}

InitPublish ==
    /\ variant \in Variants
    /\ config = [k \in ConfigKeys |-> "secret"]
    /\ sitePosts = {}
    /\ published = {}
    /\ pc = "Publish"
    /\ stages = <<>>
    /\ newsOutcome = "none"
    /\ feed = <<>>
    /\ valid_articles = <<>>
    /\ checkLog = <<>>
    /\ article = NoArticle
    /\ imgOutcome = "none"
    /\ downloads = 0
    /\ uploads = 0
    /\ media_id \in MediaIds
    /\ uploaded_url = None
    /\ img_ref = None
    /\ modelLog = <<>>
    /\ title \in PublishTitles
    /\ content \in PublishContents
    /\ post_data = NoPost
    /\ postLog = <<>>
    /\ outcome = "Running"

NextPublish ==
    \/ PublishEnter
    \/ PublishAttempt

SpecPublish == InitPublish /\ [][NextPublish]_vars

(***************************************************************************)
(* check_if_post_exists called on its own, several times with one term,    *)
(* while nothing is published on the site.                                 *)
(***************************************************************************)
\* bound: calls of check_if_post_exists with the same term
MaxChecks == 2

SearchTerms == Titles \ {NoneStr}

InitCheck ==
    /\ variant \in Variants
    /\ config = [k \in ConfigKeys |-> "secret"]
    /\ sitePosts \in SUBSET SiteTitles
    /\ published = {}
    /\ pc = "CheckCall"
    /\ stages = <<>>
    /\ newsOutcome = "none"
    /\ feed = <<>>
    /\ valid_articles = <<>>
    /\ checkLog = <<>>
    /\ article \in {a \in Articles : /\ a.title \in SearchTerms
                                     /\ a.urlToImage = "http://img"
                                     /\ a.url = "http://news/1"}
    /\ imgOutcome = "none"
    /\ downloads = 0
    /\ uploads = 0
    /\ media_id = None
    /\ uploaded_url = None
    /\ img_ref = None
    /\ modelLog = <<>>
    /\ title = NoneStr
    /\ content = NoneStr
    /\ post_data = NoPost
    /\ postLog = <<>>
    /\ outcome = "Running"

\* one call check_if_post_exists(article['title'])
DuplicateCheckCall ==
    /\ pc = "CheckCall"
    /\ Len(checkLog) < MaxChecks
    /\ \E resp \in GetResponses \cup {"silent"} :
         LET how == Answer(variant, "check", resp) IN
         /\ checkLog' = Append(checkLog,
                [title |-> article.title, resp |-> how,
                 exists |-> check_if_post_exists(how, article.title)])
         /\ pc' = After("check", how, "CheckCall")
    /\ UNCHANGED <<variant, config, published, sitePosts, stages, newsOutcome, feed,
                   valid_articles, article, imageVars, authorVars, publishVars,
                   outcome>>

NextCheck == DuplicateCheckCall

SpecCheck == InitCheck /\ [][NextCheck]_vars

(***************************************************************************)
(* Properties.                                                             *)
(***************************************************************************)
\* the POST /posts requests of the run that the site carried out
CreatedPosts == {i \in 1..Len(postLog) : postLog[i].created}

\* C1: the destination site stores at most one post per run, counting every
\* attempt of publish_to_wordpress, whatever the outcome of each attempt.
C1_AtMostOnePostPerRun == Cardinality(CreatedPosts) <= 1

C3_CascadeInOrderFirstSuccess ==
    /\ Len(modelLog) <= Len(model_cascade(variant))
    /\ \A i \in 1..Len(modelLog) : modelLog[i].model = model_cascade(variant)[i]
    /\ \A i, j \in 1..Len(modelLog) : i # j => modelLog[i].model # modelLog[j].model
    /\ \A i \in 1..(Len(modelLog) - 1) : ~modelLog[i].text
    /\ (modelLog # <<>> /\ modelLog[Len(modelLog)].text) =>
          /\ pc # "Author"
          /\ title = article.title
          /\ content # NoneStr

\* C3 witness: two models failed, the third answered with text, and the
\* run is over without a fourth request
C3_Witness ==
    /\ pc = "Done"
    /\ Len(modelLog) = 3
    /\ ~modelLog[1].text /\ ~modelLog[2].text /\ modelLog[3].text

\* C4: a POST /posts is issued only when the Author returned a non-empty
\* title and a non-empty body, and it carries exactly those.
C4_PublishOnlyTitleAndBody ==
    (pc = "Post" \/ postLog # <<>>) =>
        /\ title # NoneStr /\ title # <<>>
        /\ content # NoneStr /\ content # <<>>
        /\ post_data.title = title
        /\ post_data.content = content

\* C4 witness: a POST /posts was issued
C4_Witness == postLog # <<>> /\ outcome = "Published"

\* C5: called with an empty (or None) title, or an empty (or None) content,
\* publish_to_wordpress issues no request.
C5_EmptyTitleOrBodyNoRequest ==
    (title \in {NoneStr, <<>>} \/ content \in {NoneStr, <<>>}) =>
        (postLog = <<>> /\ pc # "Post")

\* the members of Titles that carry the removal marker
RemovedTitles == {TitleRemovedUpper, TitleRemovedMixed}

\* C6: the article the Scout returns, if any, has a non-empty urlToImage
\* and a title without the removal marker in any letter case.
C6_ScoutArticleHasImageNotRemoved ==
    article # NoArticle =>
        /\ article.urlToImage # None /\ article.urlToImage # ""
        /\ article.title # NoneStr
        /\ article.title \notin RemovedTitles

\* C6 witness: the Scout returned the second article of a feed whose first
\* article carries the removal marker and an image
C6_Witness ==
    /\ pc = "ScoutReturn"
    /\ Len(feed) = 2
    /\ feed[1].title \in RemovedTitles /\ feed[1].urlToImage = "http://img"
    /\ article = feed[2]

\* the site holds a post matching the title
OnSite(t) == \E p \in sitePosts : p = t

\* C7 (as stated): the Scout returns the first candidate, in feed order,
\* for which the site holds no matching post, having checked no candidate
\* after it, and None when the site holds a match for every candidate.
C7_ReturnsFirstAbsentFromSite ==
    (pc = "ScoutReturn" /\ valid_articles # <<>>) =>
        LET absent == {i \in 1..Len(valid_articles) : ~OnSite(valid_articles[i].title)} IN
        IF absent = {}
           THEN article = NoArticle
           ELSE \E i \in absent :
                  /\ \A j \in absent : i <= j
                  /\ article = valid_articles[i]
                  /\ Len(checkLog) = i

\* the duplicate check of log entry e reported a match: the site answered
\* 200 and holds a matching post
Reported(e) == e.resp = "200" /\ OnSite(e.title)

\* C7 (amended): the Scout checks the candidates in feed order by title and
\* returns the first one whose duplicate check reports no match, that is,
\* the site answered 200 with no matching post or the check itself failed
\* (another status, an exception); it checks no candidate after it, and
\* returns None when every check reported a match or no article qualifies.
C7_ReturnsFirstNotReported ==
    pc = "ScoutReturn" =>
        /\ Len(checkLog) <= Len(valid_articles)
        /\ \A i \in 1..Len(checkLog) : checkLog[i].title = valid_articles[i].title
        /\ \A i \in 1..(Len(checkLog) - 1) : Reported(checkLog[i])
        /\ valid_articles = <<>> => (article = NoArticle /\ checkLog = <<>>)
        /\ valid_articles # <<>> =>
              /\ checkLog # <<>>
              /\ IF Reported(checkLog[Len(checkLog)])
                    THEN article = NoArticle /\ Len(checkLog) = Len(valid_articles)
                    ELSE article = valid_articles[Len(checkLog)]

\* C7 witness: the first candidate was reported a duplicate and the second
\* was returned because its check failed, although the site holds it
C7_Witness ==
    /\ pc = "ScoutReturn"
    /\ Len(valid_articles) = 2
    /\ Len(checkLog) = 2
    /\ Reported(checkLog[1])
    /\ checkLog[2].resp # "200"
    /\ OnSite(checkLog[2].title)
    /\ article = valid_articles[2]

\* every request to a model was made and came back, none with text
AllModelsFailed ==
    /\ Len(modelLog) = Len(model_cascade(variant))
    /\ \A i \in 1..Len(modelLog) : modelLog[i].answered /\ ~modelLog[i].text

\* C8: when every model of the cascade fails, write_feature_article returns
\* (None, None) and the run ends without a POST /posts.
C8_AllModelsFailNoPublish ==
    AllModelsFailed =>
        /\ pc \in {"AuthorReturn", "Done"}
        /\ title = NoneStr /\ content = NoneStr
        /\ postLog = <<>>
        /\ pc = "Done" => outcome = "SkipPublish"

\* C8 witness: the run ended after four failed model requests
C8_Witness == AllModelsFailed /\ pc = "Done" /\ Len(modelLog) = 4

\* every article the search returned is held by the site
FeedAllOnSite == feed # <<>> /\ \A i \in 1..Len(feed) : OnSite(feed[i].title)

\* C9 (as stated): when the search returns only articles that are
\* duplicates on the site, the Scout returns no story.
C9_OnlyDuplicatesNoStory ==
    (pc = "ScoutReturn" /\ FeedAllOnSite) => article = NoArticle

\* the duplicate check reported a match for every candidate
AllReported ==
    /\ valid_articles # <<>>
    /\ Len(checkLog) = Len(valid_articles)
    /\ \A i \in 1..Len(checkLog) : Reported(checkLog[i])

\* C9 (amended): when the duplicate check reports every candidate of the
\* search as a duplicate (each check answered 200 with a match), the run
\* ends in the no-valid-stories outcome with no image download, no
\* POST /media, no model request and no POST /posts.
C9_AllReportedNoStory ==
    AllReported =>
        /\ pc \in {"ScoutReturn", "Done"}
        /\ article = NoArticle
        /\ pc = "Done" => outcome = "NoStories"
        /\ downloads = 0 /\ uploads = 0
        /\ modelLog = <<>> /\ postLog = <<>>

\* C9 witness: the run ended after two candidates were reported duplicates
C9_Witness == AllReported /\ pc = "Done" /\ Len(checkLog) = 2

\* the image download or the media upload failed
ImageFailed ==
    imgOutcome \in {"downloadRaise", "downloadNon200", "uploadRaise", "uploadNon201"}

\* C10: after a failed image download or media upload the Author is still
\* called, with "" as image reference, and an article whose generation
\* succeeded is sent to POST /posts with featured_media None.
C10_ImageFailureNonFatal ==
    ImageFailed =>
        /\ media_id = None /\ uploaded_url = None
        /\ img_ref = ""
        /\ pc \in {"Author", "Blocked", "AuthorReturn", "Publish", "Post", "Done"}
        /\ pc # "Author" => modelLog # <<>>
        /\ (pc = "Done" /\ modelLog # <<>> /\ modelLog[Len(modelLog)].text
              /\ title # <<>> /\ content # <<>>) =>
                 (postLog # <<>> /\ post_data.featured_media = None)
        /\ outcome = "Published" => post_data.featured_media = None

\* C10 witness: the download raised and the article was published
C10_Witness ==
    /\ imgOutcome = "downloadRaise"
    /\ outcome = "Published"
    /\ post_data.featured_media = None

\* no request has been issued to the news, generative or destination service
NoRequestIssued ==
    /\ newsOutcome = "none"
    /\ checkLog = <<>>
    /\ downloads = 0 /\ uploads = 0
    /\ modelLog = <<>>
    /\ postLog = <<>>

\* C11: when one of the four required settings is missing or empty, the
\* process exits with the failure status and issues no request at all.
C11_ConfigErrorNoNetwork ==
    (\E k \in ConfigKeys : config[k] \in {None, ""}) =>
        /\ pc \in {"Start", "Done"}
        /\ pc = "Done" => outcome = "ConfigError"
        /\ NoRequestIssued

\* C11 witness: the run exited because WP_PASSWORD alone is the empty string
C11_Witness ==
    /\ pc = "Done"
    /\ outcome = "ConfigError"
    /\ config["WP_PASSWORD"] = ""
    /\ \A k \in ConfigKeys \ {"WP_PASSWORD"} : config[k] = "secret"

\* C12: every run terminates: no call waits for ever on a service that
\* never answers, so a run that is not over always has a next step.
C12_EveryRunReachesDone ==
    /\ pc # "Blocked"
    /\ pc = "Done" \/ ENABLED Next

\* C13 (as stated): two calls of check_if_post_exists with the same title
\* and no publication between them return the same verdict, whatever the
\* availability of the search endpoint at each call.
C13_SameTitleSameVerdict ==
    \A i, j \in 1..Len(checkLog) :
        checkLog[i].title = checkLog[j].title =>
            checkLog[i].exists = checkLog[j].exists

\* C13 (amended): two such calls return the same verdict when the search
\* request is answered with status 200 at both calls, or fails at both; a
\* call whose request fails (another status, an exception, a timeout)
\* returns False whatever the site holds.
C13_SameVerdictWhenSameAvailability ==
    /\ \A i, j \in 1..Len(checkLog) :
          (/\ checkLog[i].title = checkLog[j].title
           /\ (checkLog[i].resp = "200") = (checkLog[j].resp = "200")) =>
              checkLog[i].exists = checkLog[j].exists
    /\ \A i \in 1..Len(checkLog) : checkLog[i].resp # "200" => ~checkLog[i].exists

\* C13 witness: two answered calls found the post, with the same verdict
C13_Witness ==
    /\ Len(checkLog) = 2
    /\ checkLog[1].resp = "200" /\ checkLog[2].resp = "200"
    /\ checkLog[1].exists /\ checkLog[2].exists

\* C14: once upload_image_to_wordpress has returned, it gave a media id
\* together with its served URL, or (None, None): never one without the other.
C14_MediaIdAndUrlTogether ==
    imgOutcome # "none" => ((media_id = None) <=> (uploaded_url = None))

\* C15: an exception raised by an external call (transport failure or
\* timeout) is caught at its call site and becomes that stage's failure
\* result: the news search gives no article, the duplicate check False, the
\* image stage (None, None), the Publisher a failed attempt; past the
\* configuration check the run never ends on an unhandled exception.
C15_RaisedExceptionsHandled ==
    /\ pc # "Crashed"
    /\ newsOutcome = "raise" =>
          /\ article = NoArticle
          /\ pc \in {"ScoutReturn", "Done"}
          /\ pc = "Done" => outcome = "NoStories"
    /\ \A i \in 1..Len(checkLog) : checkLog[i].resp = "raise" => ~checkLog[i].exists
    /\ imgOutcome \in {"downloadRaise", "uploadRaise"} =>
          /\ media_id = None /\ uploaded_url = None /\ img_ref = ""
          /\ pc \notin {"Image", "Upload"}
    /\ (postLog # <<>> /\ postLog[Len(postLog)].kind = "raise") =>
          /\ pc \in {"Post", "Done"}
          /\ pc = "Done" => outcome = "PublishFailed"

\* C15 witness: a run that met an exception in the image download and in
\* the post creation, and ended normally
C15_Witness ==
    /\ pc = "Done"
    /\ outcome = "PublishFailed"
    /\ imgOutcome = "downloadRaise"
    /\ postLog[Len(postLog)].kind = "raise"

StageOrder == <<"Scouting", "ImageUpload", "Authoring", "Publishing", "Done">>

StageRank(st) == CHOOSE i \in 1..Len(StageOrder) : StageOrder[i] = st

\* C16: the stages a run enters follow Scouting -> ImageUpload -> Authoring
\* -> Publishing -> Done: each at most once and none after a later one, no
\* stage before Done skipped; ImageUpload only with a selected story,
\* Authoring only after the upload function returned, Publishing only after
\* the Author returned a title and a body.
C16_StageOrder ==
    /\ \A i \in 1..Len(stages) : stages[i] \in {StageOrder[k] : k \in 1..Len(StageOrder)}
    /\ \A i, j \in 1..Len(stages) :
          i < j => StageRank(stages[i]) < StageRank(stages[j])
    /\ \A i \in 1..Len(stages) : stages[i] # "Done" => stages[i] = StageOrder[i]
    /\ pc = "Start" <=> stages = <<>>
    /\ pc = "Done" <=> (stages # <<>> /\ stages[Len(stages)] = "Done")
    /\ (\E i \in 1..Len(stages) : stages[i] = "ImageUpload") => article # NoArticle
    /\ (\E i \in 1..Len(stages) : stages[i] = "Authoring") => imgOutcome # "none"
    /\ (\E i \in 1..Len(stages) : stages[i] = "Publishing") =>
          /\ Truthy(title) /\ Truthy(content)
          /\ modelLog # <<>> /\ modelLog[Len(modelLog)].text

\* C16 witness: a run went through the five stages
C16_Witness == stages = StageOrder

\* the run selected a story, the media upload returned a media id, the first
\* model returned text that gave a body, and the site accepted the first POST
HappyPath ==
    /\ article # NoArticle
    /\ imgOutcome = "uploaded" /\ media_id # None
    /\ modelLog # <<>> /\ modelLog[1].text
    /\ postLog # <<>> /\ postLog[1].kind = "2xx"

\* C17: on the happy path the run issues exactly one POST /posts, carrying
\* the media id as featured_media and the article's title, ends in the
\* success outcome, and called only the first model of the cascade.
C17_HappyPathOnePostFirstModel ==
    HappyPath =>
        /\ pc = "Done"
        /\ outcome = "Published"
        /\ Len(postLog) = 1
        /\ post_data.featured_media = media_id
        /\ post_data.title = article.title
        /\ post_data.title \in sitePosts
        /\ Len(modelLog) = 1
        /\ modelLog[1].model = model_cascade(variant)[1]
        /\ stages = StageOrder

\* C17 witness: a happy-path run of entomology.py has ended
C17_Witness ==
    /\ HappyPath
    /\ variant = "entomology"
    /\ pc = "Done"
    /\ post_data.featured_media = "m7"

\* write_feature_article has returned to main
AuthorReturned ==
    /\ modelLog # <<>>
    /\ modelLog[Len(modelLog)].answered
    /\ pc # "Author"

EndsWith(s, suffix) ==
    /\ Len(s) >= Len(suffix)
    /\ SubSeq(s, Len(s) - Len(suffix) + 1, Len(s)) = suffix

\* C19: on a successful generation the body the Author returns holds no
\* code-fence marker and ends with the Source footer that links to the
\* article's URL.
C19_BodyEndsWithSourceFooter ==
    (AuthorReturned /\ modelLog[Len(modelLog)].text) =>
        /\ \A i \in 1..Len(content) : content[i] \notin {FenceHtml, Fence}
        /\ EndsWith(content, SourceFooter(article.url))

\* C20: one call of publish_to_wordpress issues at most 3 POST /posts (1 in
\* agent.py), and none after a response with status 200 or 201.
C20_BoundedAndStopsAtFirst2xx ==
    /\ Len(postLog) <= MaxPosts(variant)
    /\ \A i \in 1..(Len(postLog) - 1) : postLog[i].kind \notin {"2xx", "2xxNoJson"}

\* the Scout has returned and the site answered every duplicate check of
\* this run with status 200
ScoutChecksAnswered ==
    /\ pc = "ScoutReturn"
    /\ \A i \in 1..Len(checkLog) : checkLog[i].resp = "200"

\* C21: across consecutive runs a story is not republished.  A run whose
\* duplicate checks are all answered by the site skips every candidate whose
\* title an earlier run published with success and selects none of them;
\* from the Scout's return to the end of the run the selected article stays
\* the same, and every POST /posts of the run carries its title: so such a
\* run issues no POST /posts with a title published before.
C21_NoRepublishAcrossRuns ==
    /\ [](ScoutChecksAnswered =>
            /\ article.title \notin published
            /\ \A i \in 1..Len(checkLog) :
                  checkLog[i].title \in published => checkLog[i].exists)
    /\ [](postLog # <<>> => post_data.title = article.title)
    /\ [][pc \notin {"Start", "Scout", "Check", "Done"} => article' = article]_vars

\* C21 witness: a later run, its checks answered, skipped the story an
\* earlier run had published and selected the next one
C21_Witness ==
    /\ ScoutChecksAnswered
    /\ Len(checkLog) = 2
    /\ checkLog[1].title \in published
    /\ checkLog[1].exists
    /\ article = valid_articles[2]
    /\ article.title \notin published

\* C22: check_if_post_exists returns True only on status 200 with a
\* non-empty result list, and False on an exception, a timeout or another
\* status; the Scout goes on after a failed check and returns that
\* candidate as the fresh story, checking none after it.
C22_FailedCheckMeansFresh ==
    /\ pc # "Crashed"
    /\ \A i \in 1..Len(checkLog) :
          /\ checkLog[i].exists => (checkLog[i].resp = "200" /\ OnSite(checkLog[i].title))
          /\ checkLog[i].resp \in {"raise", "non200"} => ~checkLog[i].exists
          /\ checkLog[i].resp # "200" =>
                /\ i = Len(checkLog)
                /\ pc = "ScoutReturn"
                /\ article = valid_articles[i]

\* C22 witness: the check of a candidate the site holds ended on an
\* exception, and the Scout returned that candidate
C22_Witness ==
    /\ pc = "ScoutReturn"
    /\ Len(checkLog) = 1
    /\ checkLog[1].resp = "raise"
    /\ OnSite(checkLog[1].title)
    /\ ~checkLog[1].exists
    /\ article = valid_articles[1]

====
